---- MODULE Spec2Model ----
(***************************************************************************)
(* The reconciliation state machine of the MongoDB community operator:     *)
(* package state (State, transition, Machine) and the workflow definition  *)
(* of controllers/mongodb_statemachine.go (BuildStateMachine and the       *)
(* State constructors).                                                    *)
(*                                                                         *)
(* One reconcile invocation is BuildStateMachine followed by one call of   *)
(* Machine.Reconcile.  The only data that survives between invocations is  *)
(* the state-machine annotation of the resource.                           *)
(***************************************************************************)
EXTENDS Naturals, Sequences, FiniteSets

VARIABLES
    annotation,   \* the stateMachineAnnotation of the resource: its nextState, or Absent / Malformed
    env,          \* the live facts the transition predicates read
    pc,           \* "start" | "built" | "buildFailed" | "ticked"
    sm,           \* the Machine BuildStateMachine returned last
    buildErr,     \* the error BuildStateMachine returned last
    calls,        \* the calls Machine.Reconcile made in the latest tick, in order
    ret,          \* what Machine.Reconcile returned in the latest tick
    panicked,     \* Machine.Reconcile hit panic("no current state!")
    acted,        \* what the current state's Reconcile returned in the latest tick
    pass          \* history: the states executed and found complete since StartFresh ran last

vars == <<annotation, env, pc, sm, buildErr, calls, ret, panicked, acted, pass>>

-----------------------------------------------------------------------------
(* Names of the workflow's states.                                         *)

startFreshStateName == "StartFresh"
validateSpecStateName == "ValidateSpec"
createServiceStateName == "CreateService"
tlsValidationStateName == "TLSValidation"
tlsResourcesStateName == "CreateTLSResources"
deployAutomationConfigStateName == "DeployAutomationConfig"
deployStatefulSetStateName == "DeployStatefulSet"
resetStatefulSetUpdateStrategyStateName == "ResetStatefulSetUpdateStrategy"
reconciliationEndState == "ReconciliationEnd"
updateStatusState == "UpdateStatus"

-----------------------------------------------------------------------------
(* Values.                                                                 *)

\* error values: a nil error and one error per place an error can come from
NoErr == "nil"
ActionErr == "action error"
StatusUpdateErr == "status update error"
CompleteErr == "completion check error"
SaveErr == "save error"
AnnotationErr == "error fetching last state name"
NotRegisteredErr == "starting state not registered"

\* reconcile.Result values: Result{}, result.Retry(0), a requeue after 10 seconds
EmptyResult == "Result{}"
RetryNow == "Retry(0)"
RetryAfter10 == "RetryAfter(10)"

\* a State without an IsComplete function
NoFunc == "nil"

\* the annotation is missing from the resource / does not parse as AllStates
Absent == "<absent>"
Malformed == "<malformed>"

\* a state name no workflow registers (a stale or hand-edited annotation)
UnknownStateName == "DroppedState"

State(name, isComplete) ==
    [Name |-> name, Reconcile |-> name, IsComplete |-> isComplete]

transition(from, to, predicate) ==
    [from |-> from, to |-> to, predicate |-> predicate]

Call(op, arg, out) == [op |-> op, arg |-> arg, out |-> out]

BoolStr(b) == IF b THEN "true" ELSE "false"

\* m[k] of a Go map whose value type is a slice: nil (empty) for a missing key
Lookup(m, k) == IF k \in DOMAIN m THEN m[k] ELSE <<>>

\* m[k] = v of a Go map
Store(m, k, v) == [x \in DOMAIN m \cup {k} |-> IF x = k THEN v ELSE m[x]]

-----------------------------------------------------------------------------
(* package state: the Machine.                                             *)

NewStateMachine ==
    [allTransitions |-> <<>>, currentState |-> <<>>, States |-> <<>>]

\* a pointer is a sequence of length at most one: <<>> is nil
SetState(m, state) == [m EXCEPT !.currentState = <<state>>]

\* mutant: the new transition is put in front of the source state's list
AddTransition_Prepends(m, from, to, predicate) ==
    LET list == Lookup(m.allTransitions, from.Name)
        all  == Store(m.allTransitions, from.Name,
                      <<transition(from, to, predicate)>> \o list)
        s1   == Store(m.States, from.Name, from)
        s2   == Store(s1, to.Name, to)
    IN  [m EXCEPT !.allTransitions = all, !.States = s2]

\* mutant: the target of the transition is not stored in States
AddTransition_ForgetsTarget(m, from, to, predicate) ==
    LET list == Lookup(m.allTransitions, from.Name)
        all  == Store(m.allTransitions, from.Name,
                      Append(list, transition(from, to, predicate)))
        s1   == Store(m.States, from.Name, from)
    IN  [m EXCEPT !.allTransitions = all, !.States = s1]

AddTransition(m, from, to, predicate) ==
    LET list == Lookup(m.allTransitions, from.Name)
        all  == Store(m.allTransitions, from.Name,
                      Append(list, transition(from, to, predicate)))
        s1   == Store(m.States, from.Name, from)
        s2   == Store(s1, to.Name, to)
    IN  [m EXCEPT !.allTransitions = all, !.States = s2]

\* the value a TransitionPredicate returns when called
Eval(predicate, e) ==
    CASE predicate = "noCondition" -> TRUE
      [] predicate = "DirectTransition" -> TRUE
      [] predicate = "TLSEnabled" -> e.tls
      [] predicate = "needToPublishStateFirst" -> e.needToPublishStateFirst
      [] predicate = "notNeedToPublishStateFirst" -> ~e.needToPublishStateFirst
      [] predicate = "IsStillScaling" -> e.stillScaling
      [] predicate = "IsChangingVersion" -> e.changingVersion
      [] predicate = "isDone" -> e.isDone
      [] predicate = "p" -> e.p
      [] predicate = "q" -> e.q
      [] OTHER -> FALSE

\* the loop of getTransitionForState from index i on: the transition returned
\* (as a pointer) and the predicate calls made on the way
RECURSIVE scanTransitions(_, _, _)
scanTransitions(transitions, i, e) ==
    IF i > Len(transitions)
    THEN [t |-> <<>>, calls |-> <<>>]
    ELSE LET t == transitions[i]
             v == Eval(t.predicate, e)
             c == Call("predicate", t.predicate, BoolStr(v))
         IN  IF v
             THEN [t |-> <<t>>, calls |-> <<c>>]
             ELSE LET rest == scanTransitions(transitions, i + 1, e)
                  IN  [t |-> rest.t, calls |-> <<c>> \o rest.calls]

\* mutant: the scan keeps going and returns the last transition whose guard is true
RECURSIVE scanLast(_, _, _)
scanLast(transitions, i, e) ==
    IF i > Len(transitions)
    THEN [t |-> <<>>, calls |-> <<>>]
    ELSE LET t == transitions[i]
             v == Eval(t.predicate, e)
             c == Call("predicate", t.predicate, BoolStr(v))
             rest == scanLast(transitions, i + 1, e)
         IN  [t |-> IF rest.t # <<>> THEN rest.t ELSE IF v THEN <<t>> ELSE <<>>,
              calls |-> <<c>> \o rest.calls]

getTransitionForState_LastMatch(m, s, e) ==
    scanLast(Lookup(m.allTransitions, s.Name), 1, e)

getTransitionForState(m, s, e) ==
    scanTransitions(Lookup(m.allTransitions, s.Name), 1, e)

\* What Machine.Reconcile yields: panic, or the (res, err) it returns, the calls
\* it made in order, and save: <<name>> when SaveNextState(name) was called,
\* <<>> when it was not.
Outcome(panic, res, err, cs, save) ==
    [panic |-> panic, res |-> res, err |-> err, calls |-> cs, save |-> save]

\* mutant: nothing is saved when no transition is found
completeState_KeepsOnNoMatch(m, act, saveErr, e, cs) ==
    LET found == getTransitionForState(m, m.currentState[1], e)
        nextState == IF found.t # <<>> THEN found.t[1].to.Name ELSE ""
        all == cs \o found.calls \o <<Call("SaveNextState", nextState, saveErr)>>
    IN  IF nextState = ""
        THEN Outcome(FALSE, act.res, act.err, cs \o found.calls, <<>>)
        ELSE IF saveErr # NoErr
        THEN Outcome(FALSE, EmptyResult, saveErr, all, <<nextState>>)
        ELSE Outcome(FALSE, act.res, act.err, all, <<nextState>>)

\* mutant: after a successful save the tick goes on to run the next state's action
completeState_RunsNext(m, act, saveErr, e, cs) ==
    LET found == getTransitionForState(m, m.currentState[1], e)
        nextState == IF found.t # <<>> THEN found.t[1].to.Name ELSE ""
        all == cs \o found.calls \o <<Call("SaveNextState", nextState, saveErr)>>
    IN  IF saveErr # NoErr
        THEN Outcome(FALSE, EmptyResult, saveErr, all, <<nextState>>)
        ELSE IF nextState # ""
        THEN Outcome(FALSE, act.res, act.err,
                     Append(all, Call("Reconcile", nextState, NoErr)), <<nextState>>)
        ELSE Outcome(FALSE, act.res, act.err, all, <<nextState>>)

\* mutant: an error of SaveNextState is swallowed
completeState_SwallowsSaveError(m, act, saveErr, e, cs) ==
    LET found == getTransitionForState(m, m.currentState[1], e)
        nextState == IF found.t # <<>> THEN found.t[1].to.Name ELSE ""
        all == cs \o found.calls \o <<Call("SaveNextState", nextState, saveErr)>>
    IN  Outcome(FALSE, act.res, act.err, all, <<nextState>>)

\* mutant: after a successful save the tick returns an empty result
completeState_DropsResult(m, act, saveErr, e, cs) ==
    LET found == getTransitionForState(m, m.currentState[1], e)
        nextState == IF found.t # <<>> THEN found.t[1].to.Name ELSE ""
        all == cs \o found.calls \o <<Call("SaveNextState", nextState, saveErr)>>
    IN  IF saveErr # NoErr
        THEN Outcome(FALSE, EmptyResult, saveErr, all, <<nextState>>)
        ELSE Outcome(FALSE, EmptyResult, NoErr, all, <<nextState>>)

\* Machine.Reconcile from "if isComplete {" on, the state being complete: cs are
\* the calls made so far, saveErr is what saver.SaveNextState returns
completeState(m, act, saveErr, e, cs) ==
    LET found == getTransitionForState(m, m.currentState[1], e)
        nextState == IF found.t # <<>> THEN found.t[1].to.Name ELSE ""
        all == cs \o found.calls \o <<Call("SaveNextState", nextState, saveErr)>>
    IN  IF saveErr # NoErr
        THEN Outcome(FALSE, EmptyResult, saveErr, all, <<nextState>>)
        ELSE Outcome(FALSE, act.res, act.err, all, <<nextState>>)

\* mutant: an error of IsComplete is swallowed and the state taken as incomplete
afterAction_SwallowsCompleteError(m, act, comp, saveErr, e, cs) ==
    LET cur == m.currentState[1]
        has == cur.IsComplete # NoFunc
        c2  == IF has
               THEN Append(cs, Call("IsComplete", cur.Name,
                                    IF comp.err # NoErr THEN comp.err ELSE BoolStr(comp.done)))
               ELSE cs
        isComplete == IF has THEN comp.done ELSE TRUE
    IN  IF isComplete
        THEN completeState(m, act, saveErr, e, c2)
        ELSE Outcome(FALSE, act.res, act.err, c2, <<>>)

\* mutant: the transition is taken and saved whether or not the state is complete
afterAction_SavesWhenIncomplete(m, act, comp, saveErr, e, cs) ==
    LET cur == m.currentState[1]
        has == cur.IsComplete # NoFunc
        c2  == IF has
               THEN Append(cs, Call("IsComplete", cur.Name,
                                    IF comp.err # NoErr THEN comp.err ELSE BoolStr(comp.done)))
               ELSE cs
    IN  IF has /\ comp.err # NoErr
        THEN Outcome(FALSE, EmptyResult, comp.err, c2, <<>>)
        ELSE completeState(m, act, saveErr, e, c2)

\* mutant: isComplete starts out false, so a state without IsComplete never completes
afterAction_DefaultsIncomplete(m, act, comp, saveErr, e, cs) ==
    LET cur == m.currentState[1]
        has == cur.IsComplete # NoFunc
        c2  == IF has
               THEN Append(cs, Call("IsComplete", cur.Name,
                                    IF comp.err # NoErr THEN comp.err ELSE BoolStr(comp.done)))
               ELSE cs
        isComplete == IF has THEN comp.done ELSE FALSE
    IN  IF has /\ comp.err # NoErr
        THEN Outcome(FALSE, EmptyResult, comp.err, c2, <<>>)
        ELSE IF isComplete
        THEN completeState(m, act, saveErr, e, c2)
        ELSE Outcome(FALSE, act.res, act.err, c2, <<>>)

\* mutant: the guards are evaluated before the completion check
afterAction_GuardsFirst(m, act, comp, saveErr, e, cs) ==
    LET cur == m.currentState[1]
        has == cur.IsComplete # NoFunc
        found == getTransitionForState(m, cur, e)
        nextState == IF found.t # <<>> THEN found.t[1].to.Name ELSE ""
        c2  == IF has
               THEN Append(cs \o found.calls,
                           Call("IsComplete", cur.Name,
                                IF comp.err # NoErr THEN comp.err ELSE BoolStr(comp.done)))
               ELSE cs \o found.calls
        all == Append(c2, Call("SaveNextState", nextState, saveErr))
        isComplete == IF has THEN comp.done ELSE TRUE
    IN  IF has /\ comp.err # NoErr
        THEN Outcome(FALSE, EmptyResult, comp.err, c2, <<>>)
        ELSE IF ~isComplete
        THEN Outcome(FALSE, act.res, act.err, c2, <<>>)
        ELSE IF saveErr # NoErr
        THEN Outcome(FALSE, EmptyResult, saveErr, all, <<nextState>>)
        ELSE Outcome(FALSE, act.res, act.err, all, <<nextState>>)

\* Machine.Reconcile after the action returned without error: comp is what the
\* state's IsComplete returns when it is called
afterAction(m, act, comp, saveErr, e, cs) ==
    LET cur == m.currentState[1]
        has == cur.IsComplete # NoFunc
        c2  == IF has
               THEN Append(cs, Call("IsComplete", cur.Name,
                                    IF comp.err # NoErr THEN comp.err ELSE BoolStr(comp.done)))
               ELSE cs
        isComplete == IF has THEN comp.done ELSE TRUE
    IN  IF has /\ comp.err # NoErr
        THEN Outcome(FALSE, EmptyResult, comp.err, c2, <<>>)
        ELSE IF isComplete
        THEN completeState(m, act, saveErr, e, c2)
        ELSE Outcome(FALSE, act.res, act.err, c2, <<>>)

\* mutant: the early return on an action error is missing
MachineReconcile_SwallowsActionError(m, act, comp, saveErr, e) ==
    IF m.currentState = <<>>
    THEN Outcome(TRUE, EmptyResult, NoErr, <<>>, <<>>)
    ELSE afterAction(m, act, comp, saveErr, e,
                     <<Call("Reconcile", m.currentState[1].Name, act.err)>>)

\* Machine.Reconcile.  act is what the current state's Reconcile returns, e the
\* facts the predicates read.
MachineReconcile(m, act, comp, saveErr, e) ==
    IF m.currentState = <<>>
    THEN Outcome(TRUE, EmptyResult, NoErr, <<>>, <<>>)
    ELSE LET c1 == <<Call("Reconcile", m.currentState[1].Name, act.err)>>
         IN  IF act.err # NoErr
             THEN Outcome(FALSE, act.res, act.err, c1, <<>>)
             ELSE afterAction(m, act, comp, saveErr, e, c1)

-----------------------------------------------------------------------------
(* controllers: the State constructors of the workflow.                    *)

NewStartFreshState == State(startFreshStateName, NoFunc)
NewValidateSpecState == State(validateSpecStateName, NoFunc)
NewResetStatefulSetUpdateStrategyState ==
    State(resetStatefulSetUpdateStrategyStateName, "ResetStatefulSetUpdateStrategy.IsComplete")
NewUpdateStatusState == State(updateStatusState, NoFunc)
NewCreateServiceState == State(createServiceStateName, "CreateService.IsComplete")
NewEnsureTLSResourcesState == State(tlsResourcesStateName, NoFunc)
NewDeployAutomationConfigState ==
    State(deployAutomationConfigStateName, "DeployAutomationConfig.IsComplete")
NewDeployStatefulSetState ==
    State(deployStatefulSetStateName, "DeployStatefulSet.IsComplete")
NewReconciliationEndState == State(reconciliationEndState, NoFunc)
NewTLSValidationState == State(tlsValidationStateName, NoFunc)

\* the AllStates value ReconciliationEnd writes: its nextState
newAllStates == startFreshStateName

\* what status.Update can return: the result its options select, or the error
\* of the status write
StatusUpdateOutcomes ==
    {[res |-> r, err |-> NoErr] : r \in {EmptyResult, RetryNow, RetryAfter10}}
        \cup {[res |-> EmptyResult, err |-> StatusUpdateErr]}

\* what the Reconcile function of a State can return
ActionOutcomes(reconcile) ==
    CASE reconcile = startFreshStateName -> {[res |-> RetryNow, err |-> NoErr]}
      [] reconcile = reconciliationEndState ->
            {[res |-> EmptyResult, err |-> ActionErr], [res |-> EmptyResult, err |-> NoErr]}
      [] reconcile \in {validateSpecStateName, resetStatefulSetUpdateStrategyStateName,
                        updateStatusState, createServiceStateName, tlsResourcesStateName,
                        deployAutomationConfigStateName, deployStatefulSetStateName,
                        tlsValidationStateName} ->
            StatusUpdateOutcomes \cup {[res |-> RetryNow, err |-> NoErr]}
      [] OTHER -> {[res |-> RetryNow, err |-> NoErr], [res |-> EmptyResult, err |-> ActionErr]}

\* what a Reconcile function writes to the annotation: ReconciliationEnd stores
\* newAllStates() with client.Update before it returns result.OK()
ActionEffect(reconcile, act, ann) ==
    IF reconcile = reconciliationEndState /\ act.err = NoErr THEN newAllStates ELSE ann

\* what the IsComplete function of a State can return
CompleteOutcomes(isComplete) ==
    CASE isComplete = NoFunc -> {[done |-> TRUE, err |-> NoErr]}
      [] isComplete = "CreateService.IsComplete" ->
            {[done |-> TRUE, err |-> NoErr], [done |-> FALSE, err |-> CompleteErr]}
      [] OTHER ->
            {[done |-> TRUE, err |-> NoErr], [done |-> FALSE, err |-> NoErr],
             [done |-> FALSE, err |-> CompleteErr]}

-----------------------------------------------------------------------------
(* The progress store.                                                     *)

\* Saver.SaveNextState: the annotation after the call
SaveNextState(ann, stateName, saveErr) ==
    IF saveErr = NoErr THEN stateName ELSE ann

\* getLastStateName: the nextState of the annotation, "" when there is none
getLastStateName(ann) ==
    CASE ann = Absent -> [name |-> "", err |-> NoErr]
      [] ann = Malformed -> [name |-> "", err |-> AnnotationErr]
      [] OTHER -> [name |-> ann, err |-> NoErr]

-----------------------------------------------------------------------------
(* controllers: BuildStateMachine.                                         *)

\* the AddTransition calls of BuildStateMachine, in order
WorkflowTransitions ==
    << <<NewStartFreshState, NewValidateSpecState, "noCondition">>,
       <<NewValidateSpecState, NewCreateServiceState, "noCondition">>,
       <<NewValidateSpecState, NewTLSValidationState, "TLSEnabled">>,
       <<NewValidateSpecState, NewDeployAutomationConfigState, "needToPublishStateFirst">>,
       <<NewValidateSpecState, NewDeployStatefulSetState, "notNeedToPublishStateFirst">>,
       <<NewCreateServiceState, NewTLSValidationState, "TLSEnabled">>,
       <<NewCreateServiceState, NewDeployAutomationConfigState, "needToPublishStateFirst">>,
       <<NewCreateServiceState, NewDeployStatefulSetState, "notNeedToPublishStateFirst">>,
       <<NewDeployStatefulSetState, NewUpdateStatusState, "IsStillScaling">>,
       <<NewTLSValidationState, NewEnsureTLSResourcesState, "noCondition">>,
       <<NewEnsureTLSResourcesState, NewDeployAutomationConfigState, "needToPublishStateFirst">>,
       <<NewEnsureTLSResourcesState, NewDeployStatefulSetState, "notNeedToPublishStateFirst">>,
       <<NewDeployStatefulSetState, NewDeployAutomationConfigState, "notNeedToPublishStateFirst">>,
       <<NewDeployStatefulSetState, NewResetStatefulSetUpdateStrategyState, "IsChangingVersion">>,
       <<NewDeployStatefulSetState, NewUpdateStatusState, "noCondition">>,
       <<NewDeployAutomationConfigState, NewDeployStatefulSetState, "needToPublishStateFirst">>,
       <<NewDeployAutomationConfigState, NewResetStatefulSetUpdateStrategyState, "IsChangingVersion">>,
       <<NewDeployAutomationConfigState, NewUpdateStatusState, "noCondition">>,
       <<NewResetStatefulSetUpdateStrategyState, NewUpdateStatusState, "noCondition">>,
       <<NewUpdateStatusState, NewDeployStatefulSetState, "IsStillScaling">>,
       <<NewUpdateStatusState, NewReconciliationEndState, "noCondition">> >>

\* m after the calls AddTransition(list[i]), ..., AddTransition(list[Len(list)])
RECURSIVE AddTransitions(_, _, _)
AddTransitions(m, list, i) ==
    IF i > Len(list)
    THEN m
    ELSE AddTransitions(AddTransition(m, list[i][1], list[i][2], list[i][3]), list, i + 1)

\* mutant: an unregistered name falls back to the initial state
Resume_FallsBack(m, ann, initial) ==
    LET last == getLastStateName(ann)
        startingStateName == IF last.name = "" \/ last.name \notin DOMAIN m.States
                             THEN initial ELSE last.name
    IN  IF last.err # NoErr
        THEN [sm |-> <<>>, err |-> AnnotationErr]
        ELSE [sm |-> <<SetState(m, m.States[startingStateName])>>, err |-> NoErr]

\* mutant: an empty nextState returns the machine without a current state
Resume_SkipsSetState(m, ann, initial) ==
    LET last == getLastStateName(ann)
    IN  IF last.err # NoErr
        THEN [sm |-> <<>>, err |-> AnnotationErr]
        ELSE IF last.name = ""
        THEN [sm |-> <<m>>, err |-> NoErr]
        ELSE IF last.name \notin DOMAIN m.States
        THEN [sm |-> <<>>, err |-> NotRegisteredErr]
        ELSE [sm |-> <<SetState(m, m.States[last.name])>>, err |-> NoErr]

\* the end of BuildStateMachine: the starting state of machine m for annotation
\* ann, initial being the name used for an empty nextState.  sm is the pointer
\* returned: <<>> is nil.
Resume(m, ann, initial) ==
    LET last == getLastStateName(ann)
        startingStateName == IF last.name = "" THEN initial ELSE last.name
    IN  IF last.err # NoErr
        THEN [sm |-> <<>>, err |-> AnnotationErr]
        ELSE IF startingStateName \notin DOMAIN m.States
        THEN [sm |-> <<>>, err |-> NotRegisteredErr]
        ELSE [sm |-> <<SetState(m, m.States[startingStateName])>>, err |-> NoErr]

\* the machine of BuildStateMachine after its AddTransition calls
WorkflowMachine == AddTransitions(NewStateMachine, WorkflowTransitions, 1)

BuildStateMachine(ann) == Resume(WorkflowMachine, ann, startFreshStateName)

-----------------------------------------------------------------------------
(* The reconcile loop over the workflow.                                   *)

\* what a rewrite from outside leaves as the annotation: none, an empty
\* nextState, text that does not parse, the name of a state that is not registered
AnnotationValues == {"", Absent, Malformed, UnknownStateName}

Envs ==
    [tls : BOOLEAN, needToPublishStateFirst : BOOLEAN, stillScaling : BOOLEAN,
     changingVersion : BOOLEAN, isDone : BOOLEAN, p : BOOLEAN, q : BOOLEAN]

\* the facts the workflow's predicates read
WorkflowEnvs == {e \in Envs : ~e.isDone /\ ~e.p /\ ~e.q}

NoReturn == [res |-> EmptyResult, err |-> NoErr]

EmptyPass == [ran |-> {}, done |-> {}]

CurrentReconcile(m) ==
    IF m.currentState = <<>> THEN "" ELSE m.currentState[1].Reconcile

CurrentIsComplete(m) ==
    IF m.currentState = <<>> THEN NoFunc ELSE m.currentState[1].IsComplete

Init ==
    /\ annotation = Absent
    /\ env \in WorkflowEnvs
    /\ pc = "start"
    /\ sm = <<>>
    /\ buildErr = NoErr
    /\ calls = <<>>
    /\ ret = NoReturn
    /\ panicked = FALSE
    /\ acted = NoReturn
    /\ pass = EmptyPass

\* a reconcile invocation starts: the machine is built from the annotation
Build(b) ==
    /\ pc # "built"
    /\ sm' = b.sm
    /\ buildErr' = b.err
    /\ pc' = IF b.err = NoErr THEN "built" ELSE "buildFailed"
    /\ UNCHANGED <<annotation, env, calls, ret, panicked, acted, pass>>

\* the invocation calls Machine.Reconcile on the machine it built
ReconcileCall ==
    /\ pc = "built"
    /\ \E act \in ActionOutcomes(CurrentReconcile(sm[1])),
          comp \in CompleteOutcomes(CurrentIsComplete(sm[1])),
          saveErr \in {NoErr, SaveErr} :
          LET r  == MachineReconcile(sm[1], act, comp, saveErr, env)
              a1 == IF r.panic THEN annotation
                    ELSE ActionEffect(CurrentReconcile(sm[1]), act, annotation)
          IN  /\ annotation' = IF r.save # <<>>
                               THEN SaveNextState(a1, r.save[1], saveErr)
                               ELSE a1
              /\ calls' = r.calls
              /\ ret' = [res |-> r.res, err |-> r.err]
              /\ panicked' = r.panic
              /\ acted' = IF r.panic THEN NoReturn ELSE act
    /\ pc' = "ticked"
    /\ UNCHANGED <<env, sm, buildErr>>

Tick == ReconcileCall /\ UNCHANGED pass

\* the cluster or the resource's spec changes: an event queues a new invocation
ExternalChange(envs) ==
    /\ pc # "built"
    /\ \E e \in envs : e # env /\ env' = e
    /\ pc' = "start"
    /\ UNCHANGED <<annotation, sm, buildErr, calls, ret, panicked, acted, pass>>

\* someone rewrites the annotation of the resource: an event queues a new invocation
ExternalEdit(values) ==
    /\ pc # "built"
    /\ \E a \in values : a # annotation /\ annotation' = a
    /\ pc' = "start"
    /\ UNCHANGED <<env, sm, buildErr, calls, ret, panicked, acted, pass>>

BuildWorkflow == Build(BuildStateMachine(annotation))

ChangeWorkflow == ExternalChange(WorkflowEnvs)

EditWorkflow == ExternalEdit(AnnotationValues)

Next == BuildWorkflow \/ Tick \/ ChangeWorkflow \/ EditWorkflow

Spec == Init /\ [][Next]_vars

-----------------------------------------------------------------------------
(* The three-state machine of the end-to-end scenario: Start -> Middle     *)
(* unconditionally, Middle -> End when isDone, no completion checks.       *)

SMETransitions ==
    << <<State("Start", NoFunc), State("Middle", NoFunc), "DirectTransition">>,
       <<State("Middle", NoFunc), State("End", NoFunc), "isDone">> >>

BuildSME(ann) ==
    Resume(AddTransitions(NewStateMachine, SMETransitions, 1), ann, "Start")

SMEEnvs ==
    {e \in Envs : /\ ~e.tls /\ ~e.needToPublishStateFirst /\ ~e.stillScaling
                  /\ ~e.changingVersion /\ ~e.p /\ ~e.q}

InitSME ==
    /\ annotation = Absent
    /\ env \in SMEEnvs
    /\ pc = "start"
    /\ sm = <<>>
    /\ buildErr = NoErr
    /\ calls = <<>>
    /\ ret = NoReturn
    /\ panicked = FALSE
    /\ acted = NoReturn
    /\ pass = EmptyPass

BuildScenario == Build(BuildSME(annotation))

ChangeScenario == ExternalChange(SMEEnvs)

EditScenario == ExternalEdit(AnnotationValues)

NextSME == BuildScenario \/ Tick \/ ChangeScenario \/ EditScenario

SpecSME == InitSME /\ [][NextSME]_vars

-----------------------------------------------------------------------------
(* The package on its own: a caller registers any transitions in any       *)
(* order, sets a current state and calls Reconcile.                        *)

\* the most AddTransition calls a caller makes
MaxTransitions == 2

\* the State values a caller passes: A2 has the name of A and another action
EngineStates ==
    {State("A", NoFunc),
     [Name |-> "B", Reconcile |-> "B", IsComplete |-> "B.IsComplete"],
     [Name |-> "A", Reconcile |-> "A2", IsComplete |-> NoFunc]}

\* the predicates a caller passes: two that read independent facts, and FromBool(true)
EnginePredicates == {"p", "q", "DirectTransition"}

EngineEnvs ==
    {e \in Envs : /\ ~e.tls /\ ~e.needToPublishStateFirst /\ ~e.stillScaling
                  /\ ~e.changingVersion /\ ~e.isDone}

\* the number of transitions registered in m
RECURSIVE CountTransitions(_, _)
CountTransitions(m, names) ==
    IF names = {} THEN 0
    ELSE LET n == CHOOSE x \in names : TRUE
         IN  Len(m.allTransitions[n]) + CountTransitions(m, names \ {n})

NumTransitions(m) == CountTransitions(m, DOMAIN m.allTransitions)

InitEngine ==
    /\ annotation = Absent
    /\ env \in EngineEnvs
    /\ pc = "start"
    /\ sm = <<NewStateMachine>>
    /\ buildErr = NoErr
    /\ calls = <<>>
    /\ ret = NoReturn
    /\ panicked = FALSE
    /\ acted = NoReturn
    /\ pass = EmptyPass

AddTransitionCall ==
    /\ pc = "start"
    /\ NumTransitions(sm[1]) < MaxTransitions
    /\ \E from \in EngineStates, to \in EngineStates, predicate \in EnginePredicates :
          sm' = <<AddTransition(sm[1], from, to, predicate)>>
    /\ UNCHANGED <<annotation, env, pc, buildErr, calls, ret, panicked, acted, pass>>

SetStateCall ==
    /\ pc = "start"
    /\ \E state \in EngineStates : sm' = <<SetState(sm[1], state)>>
    /\ pc' = "built"
    /\ UNCHANGED <<annotation, env, buildErr, calls, ret, panicked, acted, pass>>

NextEngine == AddTransitionCall \/ SetStateCall \/ Tick

SpecEngine == InitEngine /\ [][NextEngine]_vars

-----------------------------------------------------------------------------
(* Vocabulary of the properties.                                           *)

\* one call of Machine.Reconcile
TickStep == pc = "built" /\ pc' = "ticked"

\* one call of BuildStateMachine
BuildStep == pc # "built" /\ pc' \in {"built", "buildFailed"}

\* the state the machine built last is positioned at
Cur == sm[1].currentState[1]

\* the calls of kind op among cs, in order
Ops(cs, op) == SelectSeq(cs, LAMBDA c : c.op = op)

ErrorValues == {ActionErr, StatusUpdateErr, CompleteErr, SaveErr}

\* the positions of the transitions out of state name whose guard is true under e
TrueGuards(m, name, e) ==
    {i \in 1..Len(Lookup(m.allTransitions, name)) :
        Eval(m.allTransitions[name][i].predicate, e)}

\* the name the earliest registered transition with a true guard leads to, ""
\* when there is none
EarliestTrue(m, name, e) ==
    LET I == TrueGuards(m, name, e)
    IN  IF I = {} THEN ""
        ELSE m.allTransitions[name][CHOOSE i \in I : \A j \in I : i <= j].to.Name

\* the state an invocation starting from annotation ann executes, <<>> when
\* the machine cannot be built
ResumeState(ann) == 
    LET b == BuildStateMachine(ann)
    IN  IF b.sm = <<>> THEN <<>> ELSE b.sm[1].currentState

\* the action of the executed state returned without error and the state was
\* found complete (it has no IsComplete, or IsComplete returned true)
Completed(cs, state) ==
    /\ Len(cs) >= 1
    /\ cs[1] = Call("Reconcile", state.Name, NoErr)
    /\ \/ state.IsComplete = NoFunc
       \/ Len(cs) >= 2 /\ cs[2] = Call("IsComplete", state.Name, "true")

-----------------------------------------------------------------------------
(* Properties of the workflow (specification Spec).                        *)

\* C1: when the action of the current state returns an error, Machine.Reconcile
\* returns that same error, calls neither IsComplete nor a predicate nor
\* SaveNextState, and the annotation keeps its value, so that the next
\* invocation resumes at the same state.
C1_ActionErrorStopsTick ==
    [][TickStep /\ Len(calls') >= 1 /\ calls'[1].op = "Reconcile" /\ calls'[1].out # NoErr
        => /\ ret'.err = calls'[1].out
           /\ calls' = <<Call("Reconcile", Cur.Name, ret'.err)>>
           /\ annotation' = annotation
           /\ ResumeState(annotation') = <<Cur>>]_vars

C1_Witness ==
    /\ pc = "ticked"
    /\ Cur.Name = deployStatefulSetStateName
    /\ calls = <<Call("Reconcile", deployStatefulSetStateName, StatusUpdateErr)>>
    /\ ret.err = StatusUpdateErr
    /\ annotation = deployStatefulSetStateName

\* C2: when the action succeeds and IsComplete returns false, the tick returns
\* no error, does not call SaveNextState and leaves the annotation as it was; an
\* invocation built from it executes the same state again.
C2_IncompleteKeepsResumePoint ==
    [][TickStep /\ Len(calls') >= 2 /\ calls'[1].out = NoErr
          /\ calls'[2] = Call("IsComplete", Cur.Name, "false")
        => /\ ret'.err = NoErr
           /\ Ops(calls', "SaveNextState") = <<>>
           /\ annotation' = annotation
           /\ ResumeState(annotation') = <<Cur>>]_vars

C2_Witness ==
    /\ pc = "ticked"
    /\ Cur.Name = deployAutomationConfigStateName
    /\ calls = <<Call("Reconcile", deployAutomationConfigStateName, NoErr),
                 Call("IsComplete", deployAutomationConfigStateName, "false")>>
    /\ ret.err = NoErr
    /\ annotation = deployAutomationConfigStateName

\* the targets of the transitions registered out of state name
Targets(m, name) ==
    {Lookup(m.allTransitions, name)[i].to.Name : i \in 1..Len(Lookup(m.allTransitions, name))}

\* one tick runs the action of the current state once and of no other state,
\* and calls SaveNextState at most once
OneActionOneSave ==
    /\ Len(Ops(calls', "Reconcile")) = 1
    /\ Ops(calls', "Reconcile")[1].arg = Cur.Name
    /\ Len(Ops(calls', "SaveNextState")) <= 1

\* C4 as claimed: one tick runs one action, saves at most once, and moves the
\* annotation by at most one edge of the transition graph.
C4_OneEdgePerTick ==
    [][TickStep
        => /\ OneActionOneSave
           /\ \/ annotation' = annotation
              \/ annotation' \in Targets(sm[1], Cur.Name)]_vars

\* C4 (amended): one tick runs one action, saves at most once, and either leaves
\* the annotation, or moves it along one edge out of the executed state, or,
\* when no guard of the executed state is true, resets it to designate the
\* initial state: "", or the StartFresh that ReconciliationEnd itself stores.
C4_OneEdgeOrReset ==
    [][TickStep
        => /\ OneActionOneSave
           /\ \/ annotation' = annotation
              \/ annotation' \in Targets(sm[1], Cur.Name)
              \/ /\ TrueGuards(sm[1], Cur.Name, env) = {}
                 /\ annotation' \in {""} \cup (IF Cur.Name = reconciliationEndState
                                               THEN {newAllStates} ELSE {})]_vars

\* the cycle edge UpdateStatus -> DeployStatefulSet is taken
C4_Witness ==
    /\ pc = "ticked"
    /\ Cur.Name = updateStatusState
    /\ env.stillScaling
    /\ Len(Ops(calls, "Reconcile")) = 1
    /\ Ops(calls, "SaveNextState") = <<Call("SaveNextState", deployStatefulSetStateName, NoErr)>>
    /\ annotation = deployStatefulSetStateName

\* C5: a state without IsComplete whose action returns without error is complete
\* in that same tick: IsComplete is not called, the next state is resolved and
\* SaveNextState is called with it.
C5_NoCheckCompletesAtOnce ==
    pc = "ticked" /\ Cur.IsComplete = NoFunc /\ Len(calls) >= 1
          /\ calls[1] = Call("Reconcile", Cur.Name, NoErr)
        => /\ Ops(calls, "IsComplete") = <<>>
           /\ Len(Ops(calls, "SaveNextState")) = 1
           /\ calls[Len(calls)].op = "SaveNextState"
           /\ calls[Len(calls)].arg = EarliestTrue(sm[1], Cur.Name, env)
           /\ ret.err = NoErr => annotation = EarliestTrue(sm[1], Cur.Name, env)

C5_Witness ==
    /\ pc = "ticked"
    /\ Cur = NewTLSValidationState
    /\ calls = <<Call("Reconcile", tlsValidationStateName, NoErr),
                 Call("predicate", "noCondition", "true"),
                 Call("SaveNextState", tlsResourcesStateName, NoErr)>>
    /\ annotation = tlsResourcesStateName

\* C6: when the executed state is complete and none of its transitions has a
\* true guard, the tick calls SaveNextState(""), and an invocation built from
\* the annotation it leaves resumes at StartFresh.
C6_NoMatchSavesEmpty ==
    pc = "ticked" /\ Completed(calls, Cur) /\ TrueGuards(sm[1], Cur.Name, env) = {}
        => /\ calls[Len(calls)].op = "SaveNextState"
           /\ calls[Len(calls)].arg = ""
           /\ ret.err = NoErr => /\ annotation = ""
                               /\ ResumeState(annotation) = <<NewStartFreshState>>

C6_Witness ==
    /\ pc = "ticked"
    /\ Cur.Name = reconciliationEndState
    /\ calls = <<Call("Reconcile", reconciliationEndState, NoErr),
                 Call("SaveNextState", "", NoErr)>>
    /\ annotation = ""

\* the names BuildStateMachine registers
Registered == DOMAIN WorkflowMachine.States

\* C8: when the annotation's nextState is a non-empty name that is not
\* registered, BuildStateMachine returns an error and no Machine: nothing is
\* run or written, and StartFresh is not substituted.
C8_UnregisteredFailsFast ==
    [][BuildStep /\ getLastStateName(annotation).err = NoErr
          /\ getLastStateName(annotation).name \notin Registered \cup {""}
        => /\ pc' = "buildFailed"
           /\ sm' = <<>>
           /\ buildErr' = NotRegisteredErr
           /\ calls' = calls
           /\ annotation' = annotation]_vars

C8_Witness ==
    /\ pc = "buildFailed"
    /\ annotation = UnknownStateName
    /\ buildErr = NotRegisteredErr
    /\ sm = <<>>

\* C9: a machine BuildStateMachine returns has a current state: StartFresh when
\* the annotation is absent or its nextState is empty, the state registered
\* under nextState otherwise; Machine.Reconcile never panics.
C9_ResumeSelectsState ==
    /\ ~panicked
    /\ pc = "built"
        => /\ sm # <<>>
           /\ sm[1].currentState # <<>>
           /\ buildErr = NoErr
           /\ LET name == getLastStateName(annotation).name
              IN  /\ name = "" => sm[1].currentState = <<NewStartFreshState>>
                  /\ name # "" => /\ name \in DOMAIN sm[1].States
                                  /\ sm[1].currentState = <<sm[1].States[name]>>
                                  /\ sm[1].currentState[1].Name = name

C9_Witness ==
    /\ pc = "ticked"
    /\ annotation = validateSpecStateName
    /\ Cur = NewStartFreshState
    /\ ~panicked

\* C10: when the action succeeds and IsComplete returns an error,
\* Machine.Reconcile returns that error, calls no predicate and not
\* SaveNextState, and the annotation keeps its value, so that the next
\* invocation resumes at the same state.
C10_CompleteErrorStopsTick ==
    [][TickStep /\ Len(calls') >= 2 /\ calls'[1].out = NoErr
          /\ calls'[2].op = "IsComplete" /\ calls'[2].out \in ErrorValues
        => /\ ret'.err = calls'[2].out
           /\ calls' = <<Call("Reconcile", Cur.Name, NoErr),
                         Call("IsComplete", Cur.Name, ret'.err)>>
           /\ annotation' = annotation
           /\ ResumeState(annotation') = <<Cur>>]_vars

C10_Witness ==
    /\ pc = "ticked"
    /\ Cur.Name = createServiceStateName
    /\ calls = <<Call("Reconcile", createServiceStateName, NoErr),
                 Call("IsComplete", createServiceStateName, CompleteErr)>>
    /\ ret = [res |-> EmptyResult, err |-> CompleteErr]
    /\ annotation = createServiceStateName

\* the tick's last call was SaveNextState and it returned an error: the write
\* did not land
SaveFailed(cs) ==
    /\ cs # <<>>
    /\ cs[Len(cs)].op = "SaveNextState"
    /\ cs[Len(cs)].out \in ErrorValues

\* C11 as claimed: when SaveNextState fails after the action ran and the state
\* was found complete, Machine.Reconcile returns the error of SaveNextState,
\* the annotation still names the state that was executed, and the next
\* invocation executes that same state again.
C11_LostWriteRepeatsState ==
    [][TickStep /\ SaveFailed(calls')
        => /\ calls'[1] = Call("Reconcile", Cur.Name, NoErr)
           /\ ret' = [res |-> EmptyResult, err |-> calls'[Len(calls')].out]
           /\ annotation' = annotation
           /\ ResumeState(annotation') = <<Cur>>]_vars

\* C11 (amended): when SaveNextState fails after the action ran and the state
\* was found complete, Machine.Reconcile returns the error of SaveNextState
\* and what the action wrote stays written.  For every state but
\* ReconciliationEnd the annotation keeps its value and the next invocation
\* executes the same state again; the action of ReconciliationEnd has itself
\* stored nextState StartFresh, so after it the next invocation executes
\* StartFresh, the state that follows ReconciliationEnd in any case.
C11_LostWriteRepeatsOrRestarts ==
    [][TickStep /\ SaveFailed(calls')
        => /\ calls'[1] = Call("Reconcile", Cur.Name, NoErr)
           /\ ret' = [res |-> EmptyResult, err |-> calls'[Len(calls')].out]
           /\ IF Cur.Name = reconciliationEndState
              THEN /\ annotation' = startFreshStateName
                   /\ ResumeState(annotation') = <<NewStartFreshState>>
              ELSE /\ annotation' = annotation
                   /\ ResumeState(annotation') = <<Cur>>]_vars

C11_Witness ==
    /\ pc = "ticked"
    /\ Cur.Name = deployStatefulSetStateName
    /\ calls[1] = Call("Reconcile", deployStatefulSetStateName, NoErr)
    /\ calls[2] = Call("IsComplete", deployStatefulSetStateName, "true")
    /\ calls[Len(calls)].op = "SaveNextState"
    /\ calls[Len(calls)].out = SaveErr
    /\ ret = [res |-> EmptyResult, err |-> SaveErr]
    /\ annotation = deployStatefulSetStateName

\* the place of a kind of call in the order of a tick
StepRank(op) ==
    CASE op = "Reconcile" -> 1
      [] op = "IsComplete" -> 2
      [] op = "predicate" -> 3
      [] op = "SaveNextState" -> 4
      [] OTHER -> 0

\* C13: the calls of a tick come in the order action, completion check,
\* predicates, SaveNextState, with one action, at most one completion check
\* and at most one SaveNextState.  A predicate is evaluated, and SaveNextState
\* is called, only after the action returned no error and the state was found
\* complete: its IsComplete returned true, or it has none.
C13_StepsInOrder ==
    pc = "ticked" /\ ~panicked
        => /\ \A i \in 1..Len(calls) : StepRank(calls[i].op) > 0
           /\ \A i, j \in 1..Len(calls) :
                i < j => StepRank(calls[i].op) <= StepRank(calls[j].op)
           /\ Len(Ops(calls, "Reconcile")) = 1
           /\ Len(Ops(calls, "IsComplete")) <= 1
           /\ Len(Ops(calls, "SaveNextState")) <= 1
           /\ Ops(calls, "IsComplete") # <<>> => Cur.IsComplete # NoFunc
           /\ Ops(calls, "predicate") # <<>> \/ Ops(calls, "SaveNextState") # <<>>
                => /\ calls[1] = Call("Reconcile", Cur.Name, NoErr)
                   /\ IF Cur.IsComplete = NoFunc
                      THEN Ops(calls, "IsComplete") = <<>>
                      ELSE calls[2] = Call("IsComplete", Cur.Name, "true")

\* a tick at DeployStatefulSet that makes all four kinds of call
C13_Witness ==
    /\ pc = "ticked"
    /\ Cur.Name = deployStatefulSetStateName
    /\ calls = <<Call("Reconcile", deployStatefulSetStateName, NoErr),
                 Call("IsComplete", deployStatefulSetStateName, "true"),
                 Call("predicate", "IsStillScaling", "false"),
                 Call("predicate", "notNeedToPublishStateFirst", "false"),
                 Call("predicate", "IsChangingVersion", "true"),
                 Call("SaveNextState", resetStatefulSetUpdateStrategyStateName, NoErr)>>

\* C15: a tick that returns no error returns the result the action of the
\* executed state returned, unchanged, whether the state was found incomplete
\* or was complete and saved.
C15_ResultPassedThrough ==
    pc = "ticked" /\ ~panicked /\ ret.err = NoErr
        => /\ acted.err = NoErr
           /\ ret.res = acted.res

\* a complete and saved tick hands on the retry the action asked for
C15_Witness ==
    /\ pc = "ticked"
    /\ Cur.Name = validateSpecStateName
    /\ acted = [res |-> RetryAfter10, err |-> NoErr]
    /\ calls[Len(calls)] = Call("SaveNextState", createServiceStateName, NoErr)
    /\ ret = [res |-> RetryAfter10, err |-> NoErr]

\* C18: the annotation comes to name ReconciliationEnd only in a tick at
\* UpdateStatus that evaluated IsStillScaling to false and then took the
\* unconditional transition; a tick at UpdateStatus that finds the state
\* complete while IsStillScaling is true saves DeployStatefulSet.
C18_EndOnlyAfterScaling ==
    [][/\ annotation' = reconciliationEndState /\ annotation # reconciliationEndState
            => /\ TickStep
               /\ Cur.Name = updateStatusState
               /\ ~env.stillScaling
               /\ calls' = <<Call("Reconcile", updateStatusState, NoErr),
                             Call("predicate", "IsStillScaling", "false"),
                             Call("predicate", "noCondition", "true"),
                             Call("SaveNextState", reconciliationEndState, NoErr)>>
       /\ TickStep /\ Cur.Name = updateStatusState /\ env.stillScaling
            /\ Completed(calls', Cur)
            => /\ calls'[Len(calls')].op = "SaveNextState"
               /\ calls'[Len(calls')].arg = deployStatefulSetStateName
               /\ annotation' # reconciliationEndState
               /\ ret'.err = NoErr => annotation' = deployStatefulSetStateName]_vars

C18_Witness ==
    /\ pc = "ticked"
    /\ Cur.Name = updateStatusState
    /\ ~env.stillScaling
    /\ calls = <<Call("Reconcile", updateStatusState, NoErr),
                 Call("predicate", "IsStillScaling", "false"),
                 Call("predicate", "noCondition", "true"),
                 Call("SaveNextState", reconciliationEndState, NoErr)>>
    /\ annotation = reconciliationEndState

-----------------------------------------------------------------------------
(* Properties of the three-state scenario (specification SpecSME).         *)

\* C7 as claimed: a tick at Middle whose action succeeds saves nothing and
\* leaves the annotation "Middle" while isDone is false, and saves "End" when
\* isDone is true.
C7_MiddleWaitsForIsDone ==
    pc = "ticked" /\ Cur.Name = "Middle" /\ calls[1] = Call("Reconcile", "Middle", NoErr)
        => IF env.isDone
           THEN /\ calls[Len(calls)].op = "SaveNextState" /\ calls[Len(calls)].arg = "End"
                /\ ret.err = NoErr => annotation = "End"
           ELSE /\ Ops(calls, "SaveNextState") = <<>>
                /\ annotation = "Middle"

\* C7 (amended): a tick at Middle whose action succeeds while isDone is false
\* finds no transition and calls SaveNextState(""), so that once the save
\* succeeds the annotation is "" and the next invocation resumes at Start; with
\* isDone true it saves "End".
C7_MiddleResetsUntilIsDone ==
    pc = "ticked" /\ Cur.Name = "Middle" /\ calls[1] = Call("Reconcile", "Middle", NoErr)
        => /\ calls[Len(calls)].op = "SaveNextState"
           /\ Len(Ops(calls, "Reconcile")) = 1
           /\ IF env.isDone
              THEN /\ calls[Len(calls)].arg = "End"
                   /\ ret.err = NoErr => annotation = "End"
              ELSE /\ calls[Len(calls)].arg = ""
                   /\ ret.err = NoErr =>
                        /\ annotation = ""
                        /\ BuildSME(annotation).sm[1].currentState[1].Name = "Start"
                   /\ ret.err # NoErr => annotation = "Middle"

C7_Witness ==
    /\ pc = "ticked"
    /\ Cur.Name = "Middle"
    /\ ~env.isDone
    /\ calls = <<Call("Reconcile", "Middle", NoErr), Call("predicate", "isDone", "false"),
                 Call("SaveNextState", "", NoErr)>>
    /\ ret.err = NoErr
    /\ annotation = ""

-----------------------------------------------------------------------------
(* Properties of the package on its own (specification SpecEngine).        *)

\* C3: for any transitions registered in any order and any truth values of
\* their guards, the name a tick saves is the target of the earliest registered
\* transition of the executed state whose guard is true, whatever later guards
\* are true; it is "" when none is true.
C3_EarliestTrueGuardWins ==
    pc = "ticked" /\ Ops(calls, "SaveNextState") # <<>>
        => Ops(calls, "SaveNextState")[1].arg = EarliestTrue(sm[1], Cur.Name, env)

\* two transitions out of A, both guards true, different targets: the one
\* registered first is taken
C3_Witness ==
    /\ pc = "ticked"
    /\ Cur.Name = "A"
    /\ "A" \in DOMAIN sm[1].allTransitions
    /\ Len(sm[1].allTransitions["A"]) = 2
    /\ sm[1].allTransitions["A"][1].predicate = "q"
    /\ sm[1].allTransitions["A"][1].to.Name = "B"
    /\ sm[1].allTransitions["A"][2].predicate = "p"
    /\ sm[1].allTransitions["A"][2].to.Name = "A"
    /\ env.p /\ env.q
    /\ calls[Len(calls)] = Call("SaveNextState", "B", NoErr)
    /\ annotation = "B"


-----------------------------------------------------------------------------
(* The workflow under fair scheduling: invocations keep coming, and a tick *)
(* whose action succeeds, whose state is found complete and whose write    *)
(* lands always happens in the end.  Only the scale operation moves: the   *)
(* other facts the predicates read keep the values they start with.        *)

ChangeScaling ==
    ExternalChange({e \in WorkflowEnvs :
                        /\ e.tls = env.tls
                        /\ e.needToPublishStateFirst = env.needToPublishStateFirst
                        /\ e.changingVersion = env.changingVersion})

\* a tick that returns no error and has called SaveNextState
TickProgress ==
    /\ Tick
    /\ ret'.err = NoErr
    /\ Ops(calls', "SaveNextState") # <<>>

NextFair == BuildWorkflow \/ Tick \/ ChangeScaling

SpecFair ==
    /\ Init
    /\ [][NextFair]_vars
    /\ WF_vars(BuildWorkflow)
    /\ SF_vars(TickProgress)

\* C12: the cycle UpdateStatus -> DeployStatefulSet -> UpdateStatus is executed
\* and not rejected: as long as IsStillScaling stays true, the workflow ends
\* up going round the two states for ever, the annotation naming each of them
\* again and again, and no tick stops the cycle because a state was executed
\* before.
C12_CycleRunsWhileScaling ==
    ([]env.stillScaling)
        => /\ <>[](annotation \in {updateStatusState, deployStatefulSetStateName})
           /\ []<>(annotation = updateStatusState)
           /\ []<>(annotation = deployStatefulSetStateName)

\* a tick at DeployStatefulSet, reached from UpdateStatus or CreateService,
\* goes back to UpdateStatus
C12_Witness ==
    /\ pc = "ticked"
    /\ env.stillScaling
    /\ Cur.Name = deployStatefulSetStateName
    /\ calls[Len(calls)] = Call("SaveNextState", updateStatusState, NoErr)
    /\ annotation = updateStatusState
    /\ ret.err = NoErr


\* C14: every call of AddTransition appends one transition at the end of the
\* list of one source state, the state the transition leaves, and changes no
\* other list; no transition is dropped, merged or moved.  After any calls
\* the from name and the to name of every transition are keys of States.
C14_AddTransitionAppends ==
    [][pc = "start" /\ pc' = "start" /\ sm' # sm
        => LET old == sm[1].allTransitions
               new == sm'[1].allTransitions
           IN  /\ DOMAIN old \subseteq DOMAIN new
               /\ \E name \in DOMAIN new :
                    /\ Len(new[name]) = Len(Lookup(old, name)) + 1
                    /\ SubSeq(new[name], 1, Len(new[name]) - 1) = Lookup(old, name)
                    /\ new[name][Len(new[name])].from.Name = name
                    /\ \A other \in DOMAIN new \ {name} :
                         other \in DOMAIN old /\ new[other] = old[other]
               /\ \A name \in DOMAIN new : \A i \in 1..Len(new[name]) :
                    /\ new[name][i].from.Name \in DOMAIN sm'[1].States
                    /\ new[name][i].to.Name \in DOMAIN sm'[1].States]_vars

\* the same transition registered twice is kept twice
C14_Witness ==
    /\ pc = "start"
    /\ DOMAIN sm[1].allTransitions = {"B"}
    /\ Len(sm[1].allTransitions["B"]) = 2
    /\ sm[1].allTransitions["B"][1] = sm[1].allTransitions["B"][2]
    /\ sm[1].allTransitions["B"][1].to.Name = "A"
    /\ DOMAIN sm[1].States = {"A", "B"}


\* the State values the transitions of m start from and lead to
Endpoints(m) ==
    UNION {UNION {{m.allTransitions[n][i].from, m.allTransitions[n][i].to} :
                     i \in 1..Len(m.allTransitions[n])} :
              n \in DOMAIN m.allTransitions}

\* two different State values with one name were passed to AddTransition
NameCollision(m) ==
    \E s1 \in Endpoints(m), s2 \in Endpoints(m) : s1.Name = s2.Name /\ s1 # s2

\* C16: when two different State definitions with the same name have been
\* registered through AddTransition, building the graph returns an error, and
\* States does not silently keep one of the two.
C16_NameCollisionRejected ==
    pc # "start" /\ NameCollision(sm[1]) => buildErr # NoErr

\* what the code does: the definition registered last takes the name, the
\* transitions of the other stay in the list, no error is returned and the
\* machine runs
C16_Witness ==
    /\ pc = "ticked"
    /\ buildErr = NoErr
    /\ ret.err = NoErr
    /\ DOMAIN sm[1].allTransitions = {"A"}
    /\ Len(sm[1].allTransitions["A"]) = 2
    /\ sm[1].allTransitions["A"][1].from.Reconcile = "A"
    /\ sm[1].allTransitions["A"][2].from.Reconcile = "A2"
    /\ sm[1].States["A"].Reconcile = "A2"


\* the action of ReconciliationEnd has run without error and the annotation
\* makes the next invocation start at StartFresh
PassEnded ==
    /\ pc = "ticked"
    /\ Cur.Name = reconciliationEndState
    /\ calls[1] = Call("Reconcile", reconciliationEndState, NoErr)
    /\ ResumeState(annotation) = <<NewStartFreshState>>

\* C17: from a resource without annotation, under fair ticks, if
\* IsStillScaling ends up false for good, then for every value of TLS enabled,
\* needToPublishStateFirst and IsChangingVersion the workflow gets to execute
\* ReconciliationEnd, after which the annotation designates StartFresh.
C17_WorkflowTerminates ==
    (<>[](~env.stillScaling)) => <>PassEnded

C17_Witness ==
    /\ PassEnded
    /\ ~env.stillScaling
    /\ env.tls /\ env.changingVersion
    /\ ret.err = NoErr
    /\ annotation = ""


-----------------------------------------------------------------------------
(* One pass after another over the workflow, with the history of the pass. *)
(* TLS enabled and IsChangingVersion keep the values they start with;      *)
(* needToPublishStateFirst and IsStillScaling change at any time.  Nobody  *)
(* rewrites the annotation, so that every pass starts at StartFresh.       *)

\* a tick, recorded in the history: a tick at StartFresh opens a new pass
TickPass ==
    /\ ReconcileCall
    /\ pass' = LET base == IF Cur.Name = startFreshStateName THEN EmptyPass ELSE pass
               IN  [ran  |-> base.ran \cup {Cur.Name},
                    done |-> base.done \cup
                                (IF Completed(calls', Cur) THEN {Cur.Name} ELSE {})]

ChangePass ==
    ExternalChange({e \in WorkflowEnvs :
                        e.tls = env.tls /\ e.changingVersion = env.changingVersion})

NextPass == BuildWorkflow \/ TickPass \/ ChangePass

SpecPass == Init /\ [][NextPass]_vars

\* C19: in a pass with TLS enabled, CreateTLSResources is executed only after
\* TLSValidation was executed and found complete, and DeployAutomationConfig
\* and DeployStatefulSet only after both were; in a pass with TLS disabled
\* neither TLSValidation nor CreateTLSResources is executed.
C19_TLSStatesFirst ==
    IF env.tls
    THEN /\ tlsResourcesStateName \in pass.ran => tlsValidationStateName \in pass.done
         /\ pass.ran \cap {deployAutomationConfigStateName, deployStatefulSetStateName} # {}
              => {tlsValidationStateName, tlsResourcesStateName} \subseteq pass.done
    ELSE pass.ran \cap {tlsValidationStateName, tlsResourcesStateName} = {}

C19_Witness ==
    /\ pc = "ticked"
    /\ env.tls
    /\ Cur.Name = deployStatefulSetStateName
    /\ pass.ran = {startFreshStateName, validateSpecStateName, createServiceStateName,
                   tlsValidationStateName, tlsResourcesStateName,
                   deployStatefulSetStateName}
    /\ pass.done = pass.ran \ {deployStatefulSetStateName}

\* C20: in a pass during which IsChangingVersion is true, ReconciliationEnd
\* is reached only after ResetStatefulSetUpdateStrategy was executed and
\* found complete, whatever IsStillScaling and needToPublishStateFirst do; in
\* a pass without version change ResetStatefulSetUpdateStrategy is not
\* executed.
C20_ResetBeforeEnd ==
    IF env.changingVersion
    THEN annotation = reconciliationEndState \/ reconciliationEndState \in pass.ran
            => resetStatefulSetUpdateStrategyStateName \in pass.done
    ELSE resetStatefulSetUpdateStrategyStateName \notin pass.ran

\* a pass with a version change in flight that reaches ReconciliationEnd
\* through the scaling loop, without ResetStatefulSetUpdateStrategy
C20_Witness ==
    /\ pc = "ticked"
    /\ env.changingVersion
    /\ Cur.Name = reconciliationEndState
    /\ ret.err = NoErr
    /\ deployStatefulSetStateName \in pass.done
    /\ resetStatefulSetUpdateStrategyStateName \notin pass.ran


\* C21: a tick at ValidateSpec that finds the state complete evaluates the
\* unconditional guard registered first and nothing else, and saves
\* CreateService, whatever TLS enabled and needToPublishStateFirst are: the
\* transitions from ValidateSpec to TLSValidation, DeployAutomationConfig and
\* DeployStatefulSet are never taken.  In every pass CreateService is
\* executed and found complete before a TLS or deploy state is executed.
C21_ValidateSpecToCreateService ==
    /\ pc = "ticked" /\ Cur.Name = validateSpecStateName /\ Completed(calls, Cur)
         => /\ Len(calls) = 3
            /\ calls[2] = Call("predicate", "noCondition", "true")
            /\ calls[3].op = "SaveNextState"
            /\ calls[3].arg = createServiceStateName
            /\ ret.err = NoErr => annotation = createServiceStateName
            /\ ret.err # NoErr => annotation = validateSpecStateName
    /\ pass.ran \cap {tlsValidationStateName, tlsResourcesStateName,
                      deployAutomationConfigStateName, deployStatefulSetStateName} # {}
         => createServiceStateName \in pass.done

\* the guards of all three later transitions of ValidateSpec are true, and
\* CreateService is saved
C21_Witness ==
    /\ pc = "ticked"
    /\ Cur.Name = validateSpecStateName
    /\ env.tls /\ env.needToPublishStateFirst
    /\ calls = <<Call("Reconcile", validateSpecStateName, NoErr),
                 Call("predicate", "noCondition", "true"),
                 Call("SaveNextState", createServiceStateName, NoErr)>>
    /\ annotation = createServiceStateName
    /\ pass.ran = {startFreshStateName, validateSpecStateName}


\* C22: whatever ticks have run, with action errors, completion errors,
\* incomplete states and failed saves among them, every name passed to
\* SaveNextState is "" or a name BuildStateMachine registers; as long as
\* nobody else writes the annotation it holds "", a registered name or
\* nothing, and BuildStateMachine never fails.
C22_SavedNamesRegistered ==
    /\ \A i \in 1..Len(calls) :
         calls[i].op = "SaveNextState" => calls[i].arg \in Registered \cup {""}
    /\ annotation \in Registered \cup {"", Absent}
    /\ buildErr = NoErr
    /\ pc # "buildFailed"

\* the name a tick saved is resolved by the next BuildStateMachine
C22_Witness ==
    /\ pc = "built"
    /\ buildErr = NoErr
    /\ calls # <<>>
    /\ calls[Len(calls)] = Call("SaveNextState", reconciliationEndState, NoErr)
    /\ annotation = reconciliationEndState
    /\ Cur = NewReconciliationEndState

====
